---- MODULE Spec2Model ----
(***************************************************************************)
(* Model of display_annotations.py (class DisplayAnnotations): the loader  *)
(* _read_json_files, the formatter _format_output, the colour generator    *)
(* _gen_colors, the writers _write_json_output and _write_excel_output,    *)
(* and the stage sequence of __init__.                                     *)
(*                                                                         *)
(* Python values are represented as follows.  A str that the code slices   *)
(* or scans (a paragraph text, a filename) is a sequence of pieces; a      *)
(* filename piece is one decimal digit or a digit-free chunk.  A label or  *)
(* a column name is a TLA+ string.  A list is a sequence.  A dict is a     *)
(* record holding its keys in insertion order and its values.              *)
(***************************************************************************)
EXTENDS Integers, Sequences, FiniteSets, TLC

VARIABLES
    dir,          \* os.listdir(dir_path) with each file's content, in listing order
    cfg,          \* the constructor's arguments
    pc,           \* the statement of __init__ that runs next
    annotations,  \* self._annotations
    output,       \* self._output
    json_file,    \* what _write_json_output wrote
    excel_file,   \* what _write_excel_output wrote
    err,          \* the exception that left __init__, if any
    ran,          \* the stages executed so far, in order
    gpc,          \* position inside _gen_colors
    colors,       \* _gen_colors: colors
    val,          \* _gen_colors: val
    loop_i,       \* _gen_colors: iterations of the for loop completed
    label_colors  \* _gen_colors: the returned dict

vars == <<dir, cfg, pc, annotations, output, json_file, excel_file, err, ran,
          gpc, colors, val, loop_i, label_colors>>

pipeline_vars == <<dir, cfg, pc, annotations, output, json_file, excel_file, err, ran>>
color_vars == <<gpc, colors, val, loop_i, label_colors>>

(***************************************************************************)
(* Bounds of the model.                                                    *)
(***************************************************************************)
MaxFiles == 3

NumSamples == 3

(***************************************************************************)
(* Generic helpers.                                                        *)
(***************************************************************************)
Range(s) == {s[i] : i \in DOMAIN s}

Last(s) == s[Len(s)]

Min(a, b) == IF a < b THEN a ELSE b

Max(a, b) == IF a < b THEN b ELSE a

Abs(x) == IF x < 0 THEN -x ELSE x

SeqsUpTo(S, n) == UNION {[1..m -> S] : m \in 0..n}

(***************************************************************************)
(* Filenames: endswith(".json") and int(re.findall(r"\d+", filename)[0]).  *)
(***************************************************************************)
Digits == {"0", "1", "2", "3", "4", "5", "6", "7", "8", "9"}

DigitVal == [d \in Digits |->
               CASE d = "0" -> 0 [] d = "1" -> 1 [] d = "2" -> 2 [] d = "3" -> 3
                 [] d = "4" -> 4 [] d = "5" -> 5 [] d = "6" -> 6 [] d = "7" -> 7
                 [] d = "8" -> 8 [] d = "9" -> 9]

EndsWithJson(filename) == Len(filename) > 0 /\ Last(filename) = ".json"

\* the longest prefix of s made of digits
RECURSIVE DigitPrefix(_)
DigitPrefix(s) ==
    IF s = <<>> \/ Head(s) \notin Digits THEN <<>>
    ELSE <<Head(s)>> \o DigitPrefix(Tail(s))

\* re.findall(r"\d+", s): the maximal digit runs of s, left to right
RECURSIVE FindAllDigitRuns(_)
FindAllDigitRuns(s) ==
    IF s = <<>> THEN <<>>
    ELSE IF Head(s) \in Digits
         THEN LET run == DigitPrefix(s)
              IN  <<run>> \o FindAllDigitRuns(SubSeq(s, Len(run) + 1, Len(s)))
         ELSE FindAllDigitRuns(Tail(s))

\* int(run) for a string of decimal digits
RECURSIVE PyInt(_)
PyInt(run) ==
    IF run = <<>> THEN 0
    ELSE 10 * PyInt(SubSeq(run, 1, Len(run) - 1)) + DigitVal[Last(run)]

(***************************************************************************)
(* Exceptions.                                                             *)
(***************************************************************************)
NoExc == [type |-> "none", line |-> 0]

Exc(type, line) == [type |-> type, line |-> line]

NoErr == [stage |-> "none", exc |-> NoExc]

(***************************************************************************)
(* _read_json_files.                                                       *)
(***************************************************************************)
\* lines 110-112: the entity triples re-keyed; e[2] of a shorter entry raises
RECURSIVE ReadEntities(_)
ReadEntities(entities) ==
    IF entities = <<>> THEN [exc |-> NoExc, ents |-> <<>>]
    ELSE LET e == Head(entities)
         IN  IF Len(e) < 3 THEN [exc |-> Exc("IndexError", 112), ents |-> <<>>]
             ELSE LET rest == ReadEntities(Tail(entities))
                  IN  [exc  |-> rest.exc,
                       ents |-> IF rest.exc = NoExc
                                THEN <<[start |-> e[1], end |-> e[2], label |-> e[3]]>>
                                       \o rest.ents
                                ELSE <<>>]

\* lines 107-121: one Record per paragraph; the filename is parsed per paragraph
RECURSIVE ReadParagraphs(_, _, _)
ReadParagraphs(filename, annotation, paragraphs) ==
    IF paragraphs = <<>> THEN [exc |-> NoExc, recs |-> <<>>]
    ELSE LET paragraph == Head(paragraphs)
             e == ReadEntities(paragraph.entities)
             runs == FindAllDigitRuns(filename)
         IN  IF e.exc # NoExc THEN [exc |-> e.exc, recs |-> <<>>]
             ELSE IF runs = <<>> THEN [exc |-> Exc("IndexError", 119), recs |-> <<>>]
             ELSE LET rec == [labels  |-> annotation.classes,
                              text    |-> paragraph.text,
                              ents    |-> e.ents,
                              title   |-> filename,
                              rec_num |-> PyInt(runs[1])]
                      rest == ReadParagraphs(filename, annotation, Tail(paragraphs))
                  IN  [exc |-> rest.exc, recs |-> <<rec>> \o rest.recs]

\* lines 103-121: the files in listing order; the first exception ends the loop
RECURSIVE ReadFiles(_)
ReadFiles(files) ==
    IF files = <<>> THEN [exc |-> NoExc, recs |-> <<>>]
    ELSE LET file == Head(files)
         IN  IF ~EndsWithJson(file.name) THEN ReadFiles(Tail(files))
             ELSE IF ~file.json.valid
                  THEN [exc |-> Exc("JSONDecodeError", 106), recs |-> <<>>]
             ELSE LET here == ReadParagraphs(file.name, file.json, file.json.annotations)
                  IN  IF here.exc # NoExc THEN here
                      ELSE LET rest == ReadFiles(Tail(files))
                           IN  [exc |-> rest.exc, recs |-> here.recs \o rest.recs]

\* a sort that places an element before the elements of equal key (not stable)
InsertPosBeforeEqual(s, r) == Cardinality({i \in DOMAIN s : s[i].rec_num < r.rec_num}) + 1

\* the position at which sorted() places r among the already sorted s:
\* after every element whose key is not greater
InsertPos(s, r) == Cardinality({i \in DOMAIN s : s[i].rec_num <= r.rec_num}) + 1

InsertAt(s, p, r) == SubSeq(s, 1, p - 1) \o <<r>> \o SubSeq(s, p, Len(s))

\* line 122: sorted(self._annotations, key=lambda e: e["rec_num"]), a stable sort
RECURSIVE Sorted(_)
Sorted(s) ==
    IF s = <<>> THEN <<>>
    ELSE LET front == Sorted(SubSeq(s, 1, Len(s) - 1))
         IN  InsertAt(front, InsertPos(front, Last(s)), Last(s))

(***************************************************************************)
(* _format_output.                                                         *)
(***************************************************************************)
\* an index of a slice, as Python normalises it for a str of length n
SliceIndex(i, n) == IF i < 0 THEN Max(i + n, 0) ELSE Min(i, n)

\* a slice that takes the character at offset end as well
PySliceInclusive(text, start, end) ==
    LET lo == SliceIndex(start, Len(text))
        hi == Min(SliceIndex(end, Len(text)) + 1, Len(text))
    IN  IF lo >= hi THEN <<>> ELSE SubSeq(text, lo + 1, hi)

\* line 195: text[start:end]
PySlice(text, start, end) ==
    LET lo == SliceIndex(start, Len(text))
        hi == SliceIndex(end, Len(text))
    IN  IF lo >= hi THEN <<>> ELSE SubSeq(text, lo + 1, hi)

NoLists == [l \in {} |-> <<>>]

NoDict == [l \in {} |-> <<>>]

\* lines 191-192: rec_output = dict(); rec_output[id_name] = rec_num.  The row keeps
\* the identifier apart from the label lists: the labels of the model differ from
\* the identifier's name.
NewRow(id_name, rec_num) == [keys |-> <<id_name>>, id |-> rec_num, lists |-> NoLists]

\* line 194: rec_output.setdefault(label, []).append(token)
SetDefaultAppend(row, label, token) ==
    IF label \in DOMAIN row.lists
    THEN [row EXCEPT !.lists[label] = Append(@, token)]
    ELSE [row EXCEPT !.keys = Append(@, label),
                     !.lists = [l \in DOMAIN row.lists \cup {label} |->
                                  IF l = label THEN <<token>> ELSE row.lists[l]]]

\* lines 193-196: the entities of one record, in order
RECURSIVE AppendEnts(_, _, _)
AppendEnts(row, text, ents) ==
    IF ents = <<>> THEN row
    ELSE LET ent == Head(ents)
         IN  AppendEnts(SetDefaultAppend(row, ent.label,
                                         PySlice(text, ent.start, ent.end)),
                        text, Tail(ents))

\* lines 190-197: one row per record, in record order
FormatRows(records, id_name) ==
    [i \in 1..Len(records) |->
        AppendEnts(NewRow(id_name, records[i].rec_num), records[i].text, records[i].ents)]

(***************************************************************************)
(* _write_excel_output.                                                    *)
(***************************************************************************)
Chars == {"a", "b"}

\* ord() of the characters of the model
Ord == [c \in Chars |-> IF c = "a" THEN 97 ELSE 98]

\* Python's < on the label names of the model
LabelRank(l) == CASE l = "LOC" -> 1 [] l = "ORG" -> 2 [] l = "PER" -> 3

\* Python's < on str
RECURSIVE TextLess(_, _)
TextLess(s, t) ==
    IF t = <<>> THEN FALSE
    ELSE IF s = <<>> THEN TRUE
    ELSE IF Head(s) # Head(t) THEN Ord[Head(s)] < Ord[Head(t)]
    ELSE TextLess(Tail(s), Tail(t))

\* Python's < on list[str]
RECURSIVE ListLess(_, _)
ListLess(s, t) ==
    IF t = <<>> THEN FALSE
    ELSE IF s = <<>> THEN TRUE
    ELSE IF Head(s) # Head(t) THEN TextLess(Head(s), Head(t))
    ELSE ListLess(Tail(s), Tail(t))

\* the elements of s without repetition, in order of first occurrence
RECURSIVE Unique(_)
Unique(s) ==
    IF s = <<>> THEN <<>>
    ELSE LET front == Unique(SubSeq(s, 1, Len(s) - 1))
         IN  IF Last(s) \in Range(front) THEN front ELSE Append(front, Last(s))

RECURSIVE Concat(_)
Concat(ss) == IF ss = <<>> THEN <<>> ELSE Head(ss) \o Concat(Tail(ss))

NaN == [isna |-> TRUE, list |-> <<>>]

\* line 206: a cell of the wide frame: the row's list, NaN where the row lacks the key
Cell(row, col) ==
    IF col \in DOMAIN row.lists THEN [isna |-> FALSE, list |-> row.lists[col]] ELSE NaN

\* line 206: the columns of the wide frame: every key, in order of first appearance
WideColumns(rows) == Unique(Concat([i \in 1..Len(rows) |-> rows[i].keys]))

\* the keys of every row, the identifier included, as the columns to unpivot
AllRowsValueVars(rows) == WideColumns(rows)

\* line 211: value_vars, the keys of the first row
ValueVars(rows) == rows[1].keys

\* lines 208-214: pd.melt: the id column is taken out of the selected columns; the
\* others are stacked column by column, each cell whole
Melt(rows, id_name) ==
    LET selected == Unique(<<id_name>> \o ValueVars(rows))
        stacked == SelectSeq(selected, LAMBDA c : c # id_name)
    IN  Concat([c \in 1..Len(stacked) |->
                  [i \in 1..Len(rows) |->
                     [id |-> rows[i].id, NAME |-> stacked[c],
                      VALUE |-> Cell(rows[i], stacked[c])]]])

\* line 215: dropna(subset=["VALUE"])
DropNa(frame) == SelectSeq(frame, LAMBDA r : ~r.VALUE.isna)

\* the order sort_values(by) sorts in
RowLess(by, id_name, r1, r2) ==
    IF by = id_name THEN r1.id < r2.id
    ELSE IF by = "NAME" THEN LabelRank(r1.NAME) < LabelRank(r2.NAME)
    ELSE ListLess(r1.VALUE.list, r2.VALUE.list)

RemoveAt(s, i) == SubSeq(s, 1, i - 1) \o SubSeq(s, i + 1, Len(s))

Unsorted(frame, by, id_name) == {frame}

\* line 215: sort_values(by), whose default quicksort keeps no order among equal keys:
\* every arrangement of the rows that is ascending in the column
RECURSIVE SortValues(_, _, _)
SortValues(frame, by, id_name) ==
    IF frame = <<>> THEN {<<>>}
    ELSE UNION {{<<frame[i]>> \o rest : rest \in SortValues(RemoveAt(frame, i), by, id_name)} :
                i \in {i \in DOMAIN frame :
                         \A j \in DOMAIN frame : ~RowLess(by, id_name, frame[j], frame[i])}}

LongColumns(id_name) == {id_name, "NAME", "VALUE"}

Unwritten == [written |-> FALSE, shape |-> "none", rows |-> <<>>]

(***************************************************************************)
(* __init__: the stages, lines 94-98.                                      *)
(***************************************************************************)
Stages == <<"read", "format", "visualise", "write_json", "write_excel">>

StageIndex(stage) == CHOOSE i \in DOMAIN Stages : Stages[i] = stage

StageEnabled(stage) ==
    CASE stage = "visualise"   -> cfg.show_visual
      [] stage = "write_json"  -> cfg.write_json_file
      [] stage = "write_excel" -> cfg.write_excel_file
      [] OTHER -> TRUE

\* the statement after `stage` that runs, the conditional ones skipped when off
NextStage(stage) ==
    LET later == {i \in DOMAIN Stages : i > StageIndex(stage) /\ StageEnabled(Stages[i])}
    IN  IF later = {} THEN "done"
        ELSE Stages[CHOOSE i \in later : \A j \in later : i <= j]

\* an exception that is recorded while the next statement runs all the same
RaiseAndContinue(stage, exc) ==
    /\ pc' = NextStage(stage)
    /\ err' = [stage |-> stage, exc |-> exc]

\* an exception leaves __init__: nothing after the raising statement runs
Raise(stage, exc) ==
    /\ pc' = "failed"
    /\ err' = [stage |-> stage, exc |-> exc]

\* line 94
ReadJsonFiles ==
    /\ pc = "read"
    /\ LET r == ReadFiles(dir)
       IN  IF r.exc = NoExc
           THEN /\ annotations' = Sorted(r.recs)
                /\ pc' = NextStage("read")
                /\ err' = err
           ELSE /\ annotations' = r.recs
                /\ Raise("read", r.exc)
    /\ ran' = Append(ran, "read")
    /\ UNCHANGED <<dir, cfg, output, json_file, excel_file, color_vars>>

\* line 95
FormatOutput ==
    /\ pc = "format"
    /\ output' = output \o FormatRows(annotations, cfg.output_record_id_name)
    /\ pc' = NextStage("format")
    /\ ran' = Append(ran, "format")
    /\ UNCHANGED <<dir, cfg, annotations, json_file, excel_file, err, color_vars>>

\* line 96, lines 163-186.  The colours _gen_colors returns are handed to displacy
\* and not kept; displacy itself is outside the program and either returns or raises.
VisualiseAnnotations ==
    /\ pc = "visualise"
    /\ \E displayed \in BOOLEAN :
         LET exc == IF ~cfg.jupyter /\ annotations = <<>> THEN Exc("IndexError", 127)
                    ELSE IF annotations # <<>> /\ ~displayed
                         THEN Exc("OSError", IF cfg.jupyter THEN 168 ELSE 177)
                    ELSE NoExc
         IN  IF exc = NoExc
             THEN pc' = NextStage("visualise") /\ err' = err
             ELSE Raise("visualise", exc)
    /\ ran' = Append(ran, "visualise")
    /\ UNCHANGED <<dir, cfg, annotations, output, json_file, excel_file, color_vars>>

\* line 97, lines 199-202
WriteJsonOutput ==
    /\ pc = "write_json"
    /\ \E opened \in BOOLEAN :
         IF opened
         THEN /\ json_file' = [written |-> TRUE, rows |-> output]
              /\ pc' = NextStage("write_json")
              /\ err' = err
         ELSE /\ json_file' = json_file
              /\ Raise("write_json", Exc("OSError", 201))
    /\ ran' = Append(ran, "write_json")
    /\ UNCHANGED <<dir, cfg, annotations, output, excel_file, color_vars>>

\* line 98, lines 204-216
WriteExcelOutput ==
    /\ pc = "write_excel"
    /\ LET id_name == cfg.output_record_id_name
           by == cfg.output_excel_sort_col
       IN  IF ~cfg.output_excel_melt
           THEN \E saved \in BOOLEAN :
                  IF saved
                  THEN /\ excel_file' = [written |-> TRUE, shape |-> "wide",
                                         rows |-> [i \in 1..Len(output) |->
                                                     [id |-> output[i].id,
                                                      cells |-> [c \in Range(WideColumns(output)) \ {id_name}
                                                                   |-> Cell(output[i], c)]]]]
                       /\ pc' = NextStage("write_excel")
                       /\ err' = err
                  ELSE /\ excel_file' = excel_file
                       /\ Raise("write_excel", Exc("OSError", 216))
           ELSE IF output = <<>>
           THEN /\ excel_file' = excel_file
                /\ Raise("write_excel", Exc("IndexError", 211))
           ELSE IF by \notin LongColumns(id_name)
           THEN /\ excel_file' = excel_file
                /\ Raise("write_excel", Exc("KeyError", 215))
           ELSE \E saved \in BOOLEAN :
                  IF saved
                  THEN /\ \E df \in SortValues(DropNa(Melt(output, id_name)), by, id_name) :
                            excel_file' = [written |-> TRUE, shape |-> "long", rows |-> df]
                       /\ pc' = NextStage("write_excel")
                       /\ err' = err
                  ELSE /\ excel_file' = excel_file
                       /\ Raise("write_excel", Exc("OSError", 216))
    /\ ran' = Append(ran, "write_excel")
    /\ UNCHANGED <<dir, cfg, annotations, output, json_file, color_vars>>

(***************************************************************************)
(* Inputs.                                                                 *)
(***************************************************************************)
Classes == <<"LOC", "ORG">>

Para(text, entities) == [text |-> text, entities |-> entities]

Json(paragraphs) == [valid |-> TRUE, classes |-> Classes, annotations |-> paragraphs]

NotJson == [valid |-> FALSE, classes |-> <<>>, annotations |-> <<>>]

FileNames ==
    { <<"notes", ".json">>,
      <<"record_", "1", ".json">>,
      <<"record_", "0", "1", ".json">>,
      <<"record_", "2", ".json">>,
      <<"record_", "1", "2", "_v", "3", ".json">>,
      <<"record_", "3", ".txt">> }

\* file contents, well-formed and not
Contents ==
    { NotJson,
      Json(<<>>),
      Json(<<Para(<<"a", "b">>, << <<0, 1, "LOC">> >>)>>),
      Json(<<Para(<<"a", "b">>, << <<0, 1, "LOC">> >>), Para(<<"b", "a">>, << <<0, 2, "ORG">> >>)>>),
      Json(<<Para(<<"a", "b">>, << <<0, 1, "LOC">>, <<1, 2>> >>)>>) }

Files(names, contents) == [name : names, json : contents]

\* directory listings: files of distinct names, in any order
Listings(files) ==
    {d \in SeqsUpTo(files, MaxFiles) :
        \A i, j \in DOMAIN d : i # j => d[i].name # d[j].name}

Configs(jupyters, visual, write_json, write_excel, melts, id_names, sort_cols) ==
    [jupyter : jupyters, show_visual : visual, write_json_file : write_json,
     write_excel_file : write_excel, output_excel_melt : melts,
     output_record_id_name : id_names, output_excel_sort_col : sort_cols]

\* lines 81-92
InitFields ==
    /\ pc = "read"
    /\ annotations = <<>>
    /\ output = <<>>
    /\ json_file = [written |-> FALSE, rows |-> <<>>]
    /\ excel_file = Unwritten
    /\ err = NoErr
    /\ ran = <<>>
    /\ gpc = "idle"
    /\ colors = <<>>
    /\ val = <<>>
    /\ loop_i = 0
    /\ label_colors = NoDict

\* the names of the whole pipeline's directories
PipelineNames ==
    { <<"notes", ".json">>,
      <<"record_", "1", ".json">>,
      <<"record_", "2", ".json">>,
      <<"record_", "3", ".txt">> }

Init ==
    /\ dir \in Listings(Files(PipelineNames, Contents))
    /\ cfg \in Configs(BOOLEAN, BOOLEAN, BOOLEAN, BOOLEAN, {TRUE}, {"RECORD_ID"}, {"RECORD_ID"})
    /\ InitFields

Next ==
    \/ ReadJsonFiles
    \/ FormatOutput
    \/ VisualiseAnnotations
    \/ WriteJsonOutput
    \/ WriteExcelOutput

Spec == Init /\ [][Next]_vars

(***************************************************************************)
(* _gen_colors, lines 124-161, statement by statement.                     *)
(***************************************************************************)
ColorLow == 128

ColorHigh == 255

MinColorDiff == 10

\* The values drawn in the model: the first NumSamples values of the range spaced
\* half of _min_color_diff apart, and the largest value of the range.
Sampled(low, high) ==
    {v \in low..(high - 1) :
        \/ v = high - 1
        \/ /\ (v - low) % (MinColorDiff \div 2) = 0
           /\ (v - low) \div (MinColorDiff \div 2) < NumSamples}

\* np.random.randint(low, high): an integer of [low, high)
RandInt(low, high) == Sampled(low, high)

\* np.random.randint(128, 255, 3): three channels, drawn independently
RandomColor == RandInt(ColorLow, ColorHigh) \X RandInt(ColorLow, ColorHigh)
                 \X RandInt(ColorLow, ColorHigh)

\* lines 136-141: [v - d, v, v + d] not in colors[:, c]; numpy compares the three
\* probe values with every earlier value of the channel and asks for any equality
ProbeNotIn(cs, v, c) ==
    \A i \in DOMAIN cs : cs[i][c] \notin {v[c] - MinColorDiff, v[c], v[c] + MinColorDiff}

\* lines 135-154: the condition under which the candidate is appended
Accepted(cs, v) == \E c \in 1..3 : ProbeNotIn(cs, v, c)

RangeLenShort(label_count) == Max(label_count - 2, 0)

\* line 131: the number of iterations of range(_label_count - 1)
RangeLen(label_count) == Max(label_count - 1, 0)

\* line 160: f"rgb({c[0]},{c[1]},{c[2]})"
RgbString(c) == <<"rgb", c[1], c[2], c[3]>>

\* line 161: dict(zip(keys, values)): pairs up to the shorter length, the last
\* value of a repeated key kept
DictZip(keys, values) ==
    LET n == Min(Len(keys), Len(values))
    IN  [l \in {keys[i] : i \in 1..n} |->
           values[CHOOSE i \in 1..n : keys[i] = l /\ \A j \in 1..n : keys[j] = l => j <= i]]

\* lines 127-130
GenColorsStart ==
    /\ gpc = "start"
    /\ IF annotations = <<>>
       THEN gpc' = "raised" /\ colors' = colors
       ELSE \E first \in RandomColor : colors' = <<first>> /\ gpc' = "for"
    /\ UNCHANGED <<val, loop_i, label_colors, pipeline_vars>>

\* lines 131-133: the next iteration of the for loop draws a candidate
ForBody ==
    /\ gpc = "for"
    /\ loop_i < RangeLen(Len(annotations[1].labels))
    /\ \E v \in RandomColor : val' = v
    /\ gpc' = "while"
    /\ UNCHANGED <<colors, loop_i, label_colors, pipeline_vars>>

\* lines 135-156: the candidate is appended
Accept ==
    /\ gpc = "while"
    /\ Accepted(colors, val)
    /\ colors' = Append(colors, val)
    /\ loop_i' = loop_i + 1
    /\ gpc' = "for"
    /\ UNCHANGED <<val, label_colors, pipeline_vars>>

\* lines 157-158: another candidate is drawn
Reject ==
    /\ gpc = "while"
    /\ ~Accepted(colors, val)
    /\ \E v \in RandomColor : val' = v
    /\ UNCHANGED <<gpc, colors, loop_i, label_colors, pipeline_vars>>

\* lines 160-161
Return ==
    /\ gpc = "for"
    /\ loop_i >= RangeLen(Len(annotations[1].labels))
    /\ label_colors' = DictZip(annotations[1].labels,
                               [i \in 1..Len(colors) |-> RgbString(colors[i])])
    /\ gpc' = "done"
    /\ UNCHANGED <<colors, val, loop_i, pipeline_vars>>

(***************************************************************************)
(* The loader alone, on directories whose .json files hold records.        *)
(***************************************************************************)
Loadable ==
    { NotJson,
      Json(<<>>),
      Json(<<Para(<<"a", "b">>, << <<0, 1, "LOC">> >>)>>),
      Json(<<Para(<<"a", "b">>, << <<0, 1, "LOC">> >>), Para(<<"b", "a">>, << <<0, 2, "ORG">> >>)>>) }

InitLoad ==
    /\ dir \in Listings(Files(FileNames, Loadable))
    /\ cfg \in Configs({FALSE}, {FALSE}, {FALSE}, {FALSE}, {TRUE}, {"RECORD_ID"}, {"RECORD_ID"})
    /\ InitFields

NextLoad ==
    \/ ReadJsonFiles
    \/ FormatOutput

SpecLoad == InitLoad /\ [][NextLoad]_vars

(***************************************************************************)
(* The pipeline on well-formed directories, with the tabular output.       *)
(***************************************************************************)
RecordNames ==
    { <<"record_", "1", ".json">>,
      <<"record_", "0", "1", ".json">>,
      <<"record_", "2", ".json">> }

Annotated ==
    { Json(<<>>),
      Json(<<Para(<<"a", "b">>, << <<0, 1, "LOC">> >>)>>),
      Json(<<Para(<<"a", "b">>, << <<1, 2, "LOC">>, <<0, 1, "LOC">>, <<0, 2, "ORG">> >>)>>),
      Json(<<Para(<<"b", "a">>, << <<1, 1, "ORG">>, <<0, 1, "LOC">> >>)>>),
      Json(<<Para(<<"a", "b">>, <<>>)>>),
      Json(<<Para(<<"a", "b">>, << <<0, 2, "ORG">> >>),
             Para(<<"b", "a">>, << <<0, 1, "ORG">>, <<1, 5, "LOC">> >>)>>) }

InitOutput ==
    /\ dir \in Listings(Files(RecordNames, Annotated))
    /\ cfg \in Configs({FALSE}, {FALSE}, {FALSE}, {TRUE}, BOOLEAN, {"RECORD_ID", "ID"},
                       {"RECORD_ID", "ID", "NAME", "VALUE"})
    /\ InitFields

NextOutput ==
    \/ ReadJsonFiles
    \/ FormatOutput
    \/ WriteExcelOutput

SpecOutput == InitOutput /\ [][NextOutput]_vars

(***************************************************************************)
(* _gen_colors as _visualise_annotations calls it, on the loaded records.  *)
(***************************************************************************)
LabelLists == {<<>>, <<"LOC">>, <<"LOC", "ORG">>, <<"ORG", "ORG">>}

Labelled ==
    {[valid |-> TRUE, classes |-> ls,
      annotations |-> <<Para(<<"a", "b">>, <<>>)>>] : ls \in LabelLists}

InitColors ==
    /\ dir \in {d \in Listings(Files({<<"record_", "1", ".json">>}, Labelled)) : Len(d) <= 1}
    /\ cfg \in Configs({FALSE}, {TRUE}, {FALSE}, {FALSE}, {TRUE}, {"RECORD_ID"}, {"RECORD_ID"})
    /\ pc = "visualise"
    /\ annotations = Sorted(ReadFiles(dir).recs)
    /\ output = FormatRows(annotations, cfg.output_record_id_name)
    /\ json_file = [written |-> FALSE, rows |-> <<>>]
    /\ excel_file = Unwritten
    /\ err = NoErr
    /\ ran = <<"read", "format">>
    /\ gpc = "start"
    /\ colors = <<>>
    /\ val = <<>>
    /\ loop_i = 0
    /\ label_colors = NoDict

NextColors ==
    \/ GenColorsStart
    \/ ForBody
    \/ Accept
    \/ Reject
    \/ Return

SpecColors == InitColors /\ [][NextColors]_vars

\* the interpreter always executes the next statement of a running call
FairSpecColors == SpecColors /\ WF_vars(NextColors)

(***************************************************************************)
(* Properties.                                                             *)
(***************************************************************************)
Loaded == "read" \in Range(ran) /\ err.stage # "read"

Formatted == "format" \in Range(ran)

LongWritten == excel_file.written /\ excel_file.shape = "long"

\* the records in the order the loader built them, before line 122 sorts them
Discovered == ReadFiles(dir).recs

WithId(records, n) == SelectSeq(records, LAMBDA r : r.rec_num = n)

Count(s, x) == Cardinality({i \in DOMAIN s : s[i] = x})

\* C1: after _read_json_files has completed, the records are in non-decreasing
\* order of rec_num, and the records of each rec_num are, in the same order, the
\* records of that rec_num as discovered (listing order, then paragraph order).
C1_SortedStable ==
    Loaded =>
      /\ \A i, j \in DOMAIN annotations :
           i < j => annotations[i].rec_num <= annotations[j].rec_num
      /\ Len(annotations) = Len(Discovered)
      /\ \A n \in {r.rec_num : r \in Range(Discovered) \cup Range(annotations)} :
           WithId(annotations, n) = WithId(Discovered, n)

\* a load that had to move a record, with two records of one id from two files
C1_Witness ==
    /\ Loaded
    /\ annotations # Discovered
    /\ \E i, j \in DOMAIN annotations :
         /\ i < j
         /\ annotations[i].rec_num = annotations[j].rec_num
         /\ annotations[i].title # annotations[j].title

\* the characters of text at the offsets start <= p < end that exist
Substring(text, start, end) ==
    [n \in 1..(Min(end, Len(text)) - start) |-> text[start + n]]

EntsWith(record, label) == SelectSeq(record.ents, LAMBDA e : e.label = label)

\* C2: _format_output yields one row per record, in record order; the row's
\* identifier key is the configured name and holds the record's rec_num; the row's
\* list for a label is the sequence of text[start:end] over the record's entities
\* of that label, in entity order (the empty string when start = end), and a label
\* without entity on the record is no key of the row.
C2_RowsAreSlices ==
    Formatted =>
      /\ Len(output) = Len(annotations)
      /\ \A i \in DOMAIN output :
           LET row == output[i]
               record == annotations[i]
           IN  /\ row.keys[1] = cfg.output_record_id_name
               /\ row.id = record.rec_num
               /\ Range(row.keys) = {cfg.output_record_id_name} \cup DOMAIN row.lists
               /\ DOMAIN row.lists = {e.label : e \in Range(record.ents)}
               /\ \A l \in DOMAIN row.lists :
                    LET es == EntsWith(record, l)
                    IN  /\ Len(row.lists[l]) = Len(es)
                        /\ \A k \in DOMAIN es :
                             /\ row.lists[l][k] = Substring(record.text, es[k].start, es[k].end)
                             /\ es[k].start = es[k].end => row.lists[l][k] = <<>>

\* rows with a label of two tokens, with an empty token, and without any label
C2_Witness ==
    /\ Formatted
    /\ \E i \in DOMAIN output : \E l \in DOMAIN output[i].lists :
         Len(output[i].lists[l]) = 2 /\ output[i].lists[l][1] # output[i].lists[l][2]
    /\ \E i \in DOMAIN output : \E l \in DOMAIN output[i].lists : <<>> \in Range(output[i].lists[l])
    /\ \E i \in DOMAIN output : DOMAIN output[i].lists = {}

\* the labels of the first row
FirstLabels == DOMAIN output[1].lists

\* the (row, label) pairs the long form has a row for
Cells == {p \in (DOMAIN output) \X FirstLabels : p[2] \in DOMAIN output[p[1]].lists}

LongRowOf(p) ==
    [id |-> output[p[1]].id, NAME |-> p[2],
     VALUE |-> [isna |-> FALSE, list |-> output[p[1]].lists[p[2]]]]

Sum(f) ==
    LET RECURSIVE S(_)
        S(D) == IF D = {} THEN 0 ELSE LET x == CHOOSE x \in D : TRUE IN f[x] + S(D \ {x})
    IN  S(DOMAIN f)

\* the tokens the rows hold under the labels of the first row
TokenCount ==
    Sum([p \in Cells |-> Len(output[p[1]].lists[p[2]])])

GroupBack(id, name) ==
    Concat([i \in 1..Len(excel_file.rows) |->
              IF excel_file.rows[i].id = id /\ excel_file.rows[i].NAME = name
              THEN excel_file.rows[i].VALUE.list ELSE <<>>])

OnlyOneWithId(i) == \A j \in DOMAIN output : output[j].id = output[i].id => j = i

\* C4: grouping the long rows back by record id and NAME gives back, for every
\* record (of a record id no other record has) and every label of its row, the
\* label's list, values in order.
C4_RoundTrip ==
    LongWritten =>
      \A i \in DOMAIN output :
        OnlyOneWithId(i) =>
          \A l \in DOMAIN output[i].lists :
            GroupBack(output[i].id, l) = output[i].lists[l]

\* C9: the rows of the long form are non-decreasing in the configured sort column,
\* whichever column that is, and none has an absent VALUE.
C9_SortedNoEmpty ==
    LongWritten =>
      /\ \A i, j \in DOMAIN excel_file.rows :
           i < j =>
             LET a == excel_file.rows[i]
                 b == excel_file.rows[j]
             IN  CASE cfg.output_excel_sort_col = cfg.output_record_id_name -> a.id <= b.id
                   [] cfg.output_excel_sort_col = "NAME" -> LabelRank(a.NAME) <= LabelRank(b.NAME)
                   [] cfg.output_excel_sort_col = "VALUE" -> ~ListLess(b.VALUE.list, a.VALUE.list)
      /\ \A r \in Range(excel_file.rows) : ~r.VALUE.isna

\* a long form the sort had to reorder, after a row without value was dropped
C9_Witness ==
    /\ LongWritten
    /\ excel_file.rows # DropNa(Melt(output, cfg.output_record_id_name))
    /\ Len(excel_file.rows) < Len(Melt(output, cfg.output_record_id_name))
    /\ cfg.output_excel_sort_col = "VALUE"

BadName(file) == FindAllDigitRuns(file.name) = <<>>

BadEntity(file) ==
    \E i \in DOMAIN file.json.annotations :
      \E k \in DOMAIN file.json.annotations[i].entities :
        Len(file.json.annotations[i].entities[k]) < 3

BadFile(file) ==
    EndsWithJson(file.name) /\ (BadName(file) \/ ~file.json.valid \/ BadEntity(file))

\* C5: when some .json file of the directory has a name without digits, is not
\* valid JSON or has an entity entry with a field missing, _read_json_files fails
\* and nothing runs after it: no row is formatted, nothing is written.
C5_AllOrNothing ==
    ("read" \in Range(ran) /\ \E i \in DOMAIN dir : BadFile(dir[i])) =>
      /\ pc = "failed"
      /\ err.stage = "read"
      /\ ran = <<"read">>
      /\ output = <<>>
      /\ ~json_file.written
      /\ ~excel_file.written

EnabledStages == SelectSeq(Stages, StageEnabled)

IsPrefix(s, t) == Len(s) <= Len(t) /\ s = SubSeq(t, 1, Len(s))

\* the stages run in the fixed order, each enabled one once, none skipped
StagesInOrder ==
    /\ IsPrefix(ran, EnabledStages)
    /\ pc = "done" => ran = EnabledStages
    /\ pc \notin {"done", "failed"} =>
         /\ StageEnabled(pc)
         /\ ran = SelectSeq(EnabledStages, LAMBDA st : StageIndex(st) < StageIndex(pc))

\* C10, as amended: the stages run in the order load, format, visualise (if
\* enabled), write JSON (if enabled), write tabular output (if enabled), each after
\* the previous one has finished, and once any stage fails, the visualisation
\* included, no later stage runs.
C10_FailureHaltsAll ==
    /\ StagesInOrder
    /\ err # NoErr <=> pc = "failed"
    /\ pc = "failed" => ran # <<>> /\ Last(ran) = err.stage

\* the visualisation failed with records loaded and both writers enabled
C10_Witness ==
    /\ pc = "failed"
    /\ err.stage = "visualise"
    /\ annotations # <<>>
    /\ cfg.write_json_file /\ cfg.write_excel_file
    /\ ~json_file.written /\ ~excel_file.written

\* C10, as stated: as above, except that a failed visualisation does not keep the
\* formatted output from being written.
C10_VisualFailureSpared ==
    /\ StagesInOrder
    /\ (pc = "failed" /\ err.stage # "visualise") => Last(ran) = err.stage
    /\ (pc = "failed" /\ err.stage = "visualise") =>
         /\ cfg.write_json_file => json_file.written
         /\ cfg.write_excel_file => "write_excel" \in Range(ran)

\* the labels _gen_colors works for: those of the first record
Labels == annotations[1].labels

\* C6: whenever _gen_colors returns, on a non-empty collection, the mapping has
\* exactly the labels of the first record as keys, one colour each, and the three
\* channels of every colour lie in [128, 255].
C6_OneColorPerLabel ==
    gpc = "done" =>
      /\ annotations # <<>>
      /\ DOMAIN label_colors = Range(Labels)
      /\ \A l \in DOMAIN label_colors :
           /\ label_colors[l][1] = "rgb"
           /\ \A c \in 2..4 : label_colors[l][c] \in 128..255
           /\ \E i \in DOMAIN colors : label_colors[l] = RgbString(colors[i])

\* a return for two labels, with two colours
C6_Witness ==
    /\ gpc = "done"
    /\ Cardinality(DOMAIN label_colors) = 2
    /\ \E l, m \in DOMAIN label_colors : label_colors[l] # label_colors[m]

\* C7: _gen_colors always ends: every call returns, raises, or gives up with
\* ColorAllocationExhausted after a bounded number of rejected candidates.
C7_Terminates == <>(gpc \in {"done", "raised", "exhausted"})

\* C8: every accepted colour after the first has a channel whose value differs by
\* more than 10 from that channel of every colour accepted before it.
C8_Separated ==
    \A j \in DOMAIN colors :
      j > 1 =>
        \E c \in 1..3 :
          \A i \in 1..(j - 1) : Abs(colors[j][c] - colors[i][c]) > MinColorDiff

====
